---- MODULE Spec2Model ----
(***************************************************************************)
(* Expression-tree genetic operators of the symbolic-regression package:   *)
(*   symb_regression/operators/mutation.py  (mutate, create_random_tree)   *)
(*   symb_regression/utils/data_handler.py  (split_data)                   *)
(*                                                                         *)
(* A Node is a record [id, op, value, left, right].  op is a string        *)
(* ("None" when the node has no op), value, left and right are sequences   *)
(* of length 0 (Python None) or 1 (the value / the child).  id is the      *)
(* identity of the Python object: the nodes of the tree handed to a call   *)
(* are numbered 1..k in preorder, and every node allocated during the call *)
(* carries NewId.                                                          *)
(*                                                                         *)
(* random.* draws are nondeterministic choices; a function that draws is   *)
(* an operator that yields the set of all results its draws can produce.   *)
(***************************************************************************)
EXTENDS Integers, Sequences, FiniteSets, TLC

\* ------------------------------------------------------------------ bounds
\* largest max_depth handed to create_random_tree / mutate
MaxDepth == 2
\* largest n_variables
MaxVars == 1
\* largest number of nodes of a tree kept in the model (trees grow without
\* limit under repeated subtree mutation)
MaxNodes == 5
\* largest number of nodes at which one call of mutate draws a mutation
MaxHits == 1
\* largest number of nodes of a tree handed to a single recorded call
MaxArgNodes == 4
\* largest length of an axis of the array x handed to split_data
MaxAxis == 3

\* ------------------------------------------------- operators.definitions
\* the operator registry (symbols only)
UNARY_OPS == {"sin", "cos"}
BINARY_OPS == {"+", "*"}
VarNames == <<"x0", "x1", "x2", "x3">>
\* get_var_name(idx): the name of the variable with column index idx
get_var_name(idx) == VarNames[idx + 1]
IsVarName(op) == \E i \in 1..Len(VarNames) : VarNames[i] = op
VarIndex(op) == CHOOSE i \in 0..(Len(VarNames) - 1) : VarNames[i + 1] = op

\* ------------------------------------------------------------- core.tree
None == "None"
NewId == 0
\* Node(op=op) and Node(value=value): a new object without children
Node(op, value) ==
    [id |-> NewId, op |-> op, value |-> value, left |-> <<>>, right |-> <<>>]
OpNode(op, l, r) ==
    [id |-> NewId, op |-> op, value |-> <<>>, left |-> l, right |-> r]

RECURSIVE NodeCount(_)
NodeCount(n) ==
    1 + (IF n.left = <<>> THEN 0 ELSE NodeCount(n.left[1]))
      + (IF n.right = <<>> THEN 0 ELSE NodeCount(n.right[1]))

\* the number of levels below n's own level that n's subtree reaches
RECURSIVE Height(_)
Height(n) ==
    LET hl == IF n.left = <<>> THEN 0 ELSE 1 + Height(n.left[1])
        hr == IF n.right = <<>> THEN 0 ELSE 1 + Height(n.right[1])
    IN  IF hl > hr THEN hl ELSE hr

\* all nodes of the tree rooted at n
RECURSIVE Nodes(_)
Nodes(n) ==
    {n} \cup (IF n.left = <<>> THEN {} ELSE Nodes(n.left[1]))
        \cup (IF n.right = <<>> THEN {} ELSE Nodes(n.right[1]))

\* Node.copy(): a deep copy, every node of it a new object
RECURSIVE copy(_)
copy(n) ==
    [id |-> NewId, op |-> n.op, value |-> n.value,
     left |-> IF n.left = <<>> THEN <<>> ELSE <<copy(n.left[1])>>,
     right |-> IF n.right = <<>> THEN <<>> ELSE <<copy(n.right[1])>>]

\* the tree with its objects named 1..k in preorder, the root being `first`
RECURSIVE Number(_, _)
Number(n, first) ==
    LET l == IF n.left = <<>> THEN <<>> ELSE <<Number(n.left[1], first + 1)>>
        nl == IF n.left = <<>> THEN 0 ELSE NodeCount(n.left[1])
        r == IF n.right = <<>> THEN <<>>
             ELSE <<Number(n.right[1], first + 1 + nl)>>
    IN  [id |-> first, op |-> n.op, value |-> n.value, left |-> l, right |-> r]

\* structural equality: equal as trees, whatever the objects
SameShape(a, b) == Number(a, 1) = Number(b, 1)

\* --------------------------------------------------------- probabilities
\* a probability is a fraction <<num, den>>; random.random() is in [0, 1)
ProbTimes(p, q) == <<p[1] * q[1], p[2] * q[2]>>
\* random.random() < p can come out true / false
CanBeBelow(p) == p[1] > 0
CanBeAtLeast(p) == p[1] < p[2]

\* ------------------------------------------------------- config.settings
\* TreeConfig(): the defaults
TreeConfig ==
    [ROOT_VARIABLE_SIDE_PROBABILITY |-> <<1, 2>>,
     VARIABLE_PROBABILITY |-> <<7, 10>>,
     OPERATOR_PROBABILITY |-> <<7, 10>>,
     UNARY_OPERATOR_PROBABILITY |-> <<3, 10>>]
\* the values random.uniform(...) is taken to return
ConstValues == {0, 1}

\* --------------------------------------------------- create_random_tree
\* random.randint(a, b): a..b, both included
randint(a, b) == a..b

\* mutant of AtRoot: the root branch taken one level too late
AtRootOffByOne(depth) == depth = 1
\* line 110: `if depth == 0`
AtRoot(depth) == depth = 0
\* line 134: `if depth >= max_depth`
AtFloor(depth, max_depth) == depth >= max_depth
\* line 120: var_idx of the forced variable of the root
RootVarIndexes(n_variables) == randint(0, n_variables)
\* lines 136 and 169: var_idx of a terminal
TerminalVarIndexes(n_variables) == randint(1, n_variables)

\* lines 135-139 and 168-177: the terminal of the floor and of the
\* non-operator branch
Terminals(n_variables, config) ==
    (IF CanBeBelow(config.VARIABLE_PROBABILITY)
     THEN {Node(get_var_name(var_idx), <<>>) :
             var_idx \in TerminalVarIndexes(n_variables)}
     ELSE {})
    \cup
    (IF CanBeAtLeast(config.VARIABLE_PROBABILITY)
     THEN {Node(None, <<v>>) : v \in ConstValues}
     ELSE {})

\* unary_weights / binary_weights: <<>> is None, <<S>> a mapping whose keys
\* with a positive weight are S
WeightKeys(weights, registry) == IF weights = <<>> THEN registry ELSE weights[1]

\* lines 117-131: the root made of op, the forced variable and the subtree t
RootNodes(op, var_idx, t, config) ==
    (IF CanBeBelow(config.ROOT_VARIABLE_SIDE_PROBABILITY)
     THEN {OpNode(op, <<Node(get_var_name(var_idx), <<>>)>>, <<t>>)}
     ELSE {})
    \cup
    (IF CanBeAtLeast(config.ROOT_VARIABLE_SIDE_PROBABILITY)
     THEN {OpNode(op, <<t>>, <<Node(get_var_name(var_idx), <<>>)>>)}
     ELSE {})

\* lines 149-152: a unary operator node over the subtree t
UnaryNode(op, t) == OpNode(op, <<t>>, <<>>)
\* mutant of BinaryNode: node.right is never set
BinaryNodeNoRight(op, l, r) == OpNode(op, <<l>>, <<>>)
\* lines 159-165: a binary operator node over the subtrees l and r
BinaryNode(op, l, r) == OpNode(op, <<l>>, <<r>>)

\* create_random_tree(depth, max_depth, n_variables, unary_weights,
\* binary_weights, config): every tree the draws can produce that has at
\* most `room` nodes
RECURSIVE create_random_tree(_, _, _, _, _, _, _)
create_random_tree(depth, max_depth, n_variables, unary_weights, binary_weights, config, room) ==
    LET uw == WeightKeys(unary_weights, UNARY_OPS)
        bw == WeightKeys(binary_weights, BINARY_OPS)
        Sub(rm) == create_random_tree(depth + 1, max_depth, n_variables,
                                      <<uw>>, <<bw>>, TreeConfig, rm)
    IN
    IF room < 1 THEN {}
    ELSE IF AtRoot(depth) THEN
        UNION { RootNodes(op, var_idx, t, config) :
                op \in bw, var_idx \in RootVarIndexes(n_variables),
                t \in Sub(room - 2) }
    ELSE IF AtFloor(depth, max_depth) THEN
        Terminals(n_variables, config)
    ELSE
        (IF CanBeBelow(config.OPERATOR_PROBABILITY)
         THEN (IF CanBeBelow(config.UNARY_OPERATOR_PROBABILITY)
               THEN {UnaryNode(op, t) : op \in uw, t \in Sub(room - 1)}
               ELSE {})
              \cup
              (IF CanBeAtLeast(config.UNARY_OPERATOR_PROBABILITY)
               THEN UNION { {BinaryNode(op, l, r) :
                               r \in Sub(room - 1 - NodeCount(l))} :
                            op \in bw, l \in Sub(room - 2) }
               ELSE {})
         ELSE {})
        \cup
        (IF CanBeAtLeast(config.OPERATOR_PROBABILITY)
         THEN Terminals(n_variables, config)
         ELSE {})

\* ------------------------------------------------------- config.settings
\* MutationType
SUBTREE == "SUBTREE"
OPERATOR == "OPERATOR"
VALUE == "VALUE"
SIMPLIFY == "SIMPLIFY"
MutationType == {SUBTREE, OPERATOR, VALUE, SIMPLIFY}
\* MutationConfig(): the defaults.  MUTATION_WEIGHTS is given by its keys
\* with a positive weight.
MutationConfig ==
    [MUTATION_WEIGHTS |-> MutationType,
     SUBTREE_DEPTH_RANGE |-> <<1, 2>>,
     VALUE_STEP_FACTOR |-> 1,
     VARIABLE_PROBABILITY |-> <<7, 10>>]

\* ---------------------------------------------------------------- mutate
\* random.gauss(0, step) added to value: the values it can give
Perturbed(value, step) == {value - step, value, value + step}
Abs(x) == IF x < 0 THEN -x ELSE x

\* `node.left.value == 0`
ValueIs(n, v) == n.value = <<v>>

\* mutant of OperatorBranch: the two pools swapped
OperatorBranchSwapped(node, unary_weights, binary_weights) ==
    IF node.op \in UNARY_OPS
    THEN {[node EXCEPT !.op = op] : op \in binary_weights}
    ELSE IF node.op \in BINARY_OPS
    THEN {[node EXCEPT !.op = op] : op \in unary_weights}
    ELSE {node}

\* lines 38-48: the OPERATOR branch; the nodes `node` can be afterwards
OperatorBranch(node, unary_weights, binary_weights) ==
    IF node.op \in UNARY_OPS
    THEN {[node EXCEPT !.op = op] : op \in unary_weights}
    ELSE IF node.op \in BINARY_OPS
    THEN {[node EXCEPT !.op = op] : op \in binary_weights}
    ELSE {node}

\* lines 50-57: the second branch guarded by MutationType.OPERATOR
ValueBranch(node, config) ==
    IF node.value # <<>>
    THEN LET step == IF node.value[1] # 0
                     THEN Abs(node.value[1]) * config.VALUE_STEP_FACTOR
                     ELSE config.VALUE_STEP_FACTOR
         IN  {[node EXCEPT !.value = <<v>>] : v \in Perturbed(node.value[1], step)}
    ELSE {node}

\* mutant of SimplifyBranch: only the right child is tested for 0
SimplifyBranchRightZeroOnly(node) ==
    IF node.op = "*"
    THEN IF node.right # <<>> /\ ValueIs(node.right[1], 0)
         THEN <<Node(None, <<0>>)>>
         ELSE IF node.left # <<>> /\ ValueIs(node.left[1], 1)
         THEN <<IF node.right # <<>> THEN copy(node.right[1]) ELSE node>>
         ELSE IF node.right # <<>> /\ ValueIs(node.right[1], 1)
         THEN <<IF node.left # <<>> THEN copy(node.left[1]) ELSE node>>
         ELSE <<>>
    ELSE <<>>

\* mutant of SimplifyBranch: the surviving operand returned as it is, not
\* copied
SimplifyBranchNoCopy(node) ==
    IF node.op = "*"
    THEN IF \/ (node.left # <<>> /\ ValueIs(node.left[1], 0))
            \/ (node.right # <<>> /\ ValueIs(node.right[1], 0))
         THEN <<Node(None, <<0>>)>>
         ELSE IF node.left # <<>> /\ ValueIs(node.left[1], 1)
         THEN <<IF node.right # <<>> THEN node.right[1] ELSE node>>
         ELSE IF node.right # <<>> /\ ValueIs(node.right[1], 1)
         THEN <<IF node.left # <<>> THEN node.left[1] ELSE node>>
         ELSE <<>>
    ELSE <<>>

\* lines 59-68: the SIMPLIFY branch; <<>> when it returns nothing and
\* mutate goes on to the children, <<n>> when mutate returns n
SimplifyBranch(node) ==
    IF node.op = "*"
    THEN IF \/ (node.left # <<>> /\ ValueIs(node.left[1], 0))
            \/ (node.right # <<>> /\ ValueIs(node.right[1], 0))
         THEN <<Node(None, <<0>>)>>
         ELSE IF node.left # <<>> /\ ValueIs(node.left[1], 1)
         THEN <<IF node.right # <<>> THEN copy(node.right[1]) ELSE node>>
         ELSE IF node.right # <<>> /\ ValueIs(node.right[1], 1)
         THEN <<IF node.left # <<>> THEN copy(node.left[1]) ELSE node>>
         ELSE <<>>
    ELSE <<>>

\* lines 27-36: the SUBTREE branch; the trees mutate can return
SubtreeBranch(max_depth, n_variables, unary_weights, binary_weights, config, room) ==
    UNION { create_random_tree(d, max_depth, n_variables, <<unary_weights>>,
                               <<binary_weights>>, TreeConfig, room) :
            d \in randint(config.SUBTREE_DEPTH_RANGE[1],
                          config.SUBTREE_DEPTH_RANGE[2]) }

\* mutant of AtNode: the second OPERATOR arm guarded by VALUE instead
AtNodeValueArm(node, mutation_type, max_depth, n_variables, unary_weights, binary_weights, config, room) ==
    IF mutation_type = "NONE" THEN {[returned |-> FALSE, node |-> node]}
    ELSE IF mutation_type = SUBTREE
    THEN {[returned |-> TRUE, node |-> t] :
            t \in SubtreeBranch(max_depth, n_variables, unary_weights,
                                binary_weights, config, room)}
    ELSE IF mutation_type = OPERATOR
    THEN {[returned |-> FALSE, node |-> n] :
            n \in OperatorBranch(node, unary_weights, binary_weights)}
    ELSE IF mutation_type = VALUE
    THEN {[returned |-> FALSE, node |-> n] : n \in ValueBranch(node, config)}
    ELSE IF mutation_type = SIMPLIFY
    THEN LET s == SimplifyBranch(node)
         IN  IF s = <<>> THEN {[returned |-> FALSE, node |-> node]}
             ELSE {[returned |-> TRUE, node |-> s[1]]}
    ELSE {[returned |-> FALSE, node |-> node]}

\* lines 21-68 with mutation_type drawn ("NONE": random.random() was not
\* below mutation_prob): the set of [returned, node], returned telling
\* whether mutate returned node at once or goes on to node's children
AtNode(node, mutation_type, max_depth, n_variables, unary_weights, binary_weights, config, room) ==
    IF mutation_type = "NONE" THEN {[returned |-> FALSE, node |-> node]}
    ELSE IF mutation_type = SUBTREE
    THEN {[returned |-> TRUE, node |-> t] :
            t \in SubtreeBranch(max_depth, n_variables, unary_weights,
                                binary_weights, config, room)}
    ELSE IF mutation_type = OPERATOR
    THEN {[returned |-> FALSE, node |-> n] :
            n \in OperatorBranch(node, unary_weights, binary_weights)}
    ELSE IF mutation_type = OPERATOR
    THEN {[returned |-> FALSE, node |-> n] : n \in ValueBranch(node, config)}
    ELSE IF mutation_type = SIMPLIFY
    THEN LET s == SimplifyBranch(node)
         IN  IF s = <<>> THEN {[returned |-> FALSE, node |-> node]}
             ELSE {[returned |-> TRUE, node |-> s[1]]}
    ELSE {[returned |-> FALSE, node |-> node]}

\* the mutation types lines 21-25 can draw, "NONE" for no mutation; a
\* mutation is drawn at no more than `hits` nodes of one call
Draws(mutation_prob, config, hits) ==
    (IF CanBeBelow(mutation_prob) /\ hits > 0 THEN config.MUTATION_WEIGHTS ELSE {})
    \cup (IF CanBeAtLeast(mutation_prob) THEN {"NONE"} ELSE {})

\* mutate(node, mutation_prob, max_depth, n_variables, unary_weights,
\* binary_weights, config): every node the draws can make it return, of at
\* most `room` nodes and with a mutation drawn at no more than `hits` nodes.
\* MutateDrawn is mutate with the draw of lines 21-25 given; Children is
\* lines 70-90, which hand the children the default MutationConfig().
RECURSIVE mutate(_, _, _, _, _, _, _, _, _)
Children(node, child_prob, max_depth, n_variables, unary_weights, binary_weights, room, hits) ==
    LET rroom == IF node.right = <<>> THEN 0 ELSE 1
        L(h) == IF node.left = <<>> THEN {<<>>}
                ELSE {<<l>> : l \in mutate(node.left[1], child_prob, max_depth,
                                           n_variables, unary_weights,
                                           binary_weights, MutationConfig,
                                           room - 1 - rroom, h)}
        R(l, h) == IF node.right = <<>> THEN {<<>>}
                   ELSE {<<r>> : r \in mutate(node.right[1], child_prob,
                                              max_depth, n_variables,
                                              unary_weights, binary_weights,
                                              MutationConfig,
                                              room - 1 - (IF l = <<>> THEN 0
                                                          ELSE NodeCount(l[1])),
                                              h)}
    IN  IF hits = 0
        THEN (IF /\ NodeCount(node) <= room
                 /\ (CanBeAtLeast(child_prob)
                       \/ (node.left = <<>> /\ node.right = <<>>))
              THEN {node} ELSE {})
        ELSE UNION { UNION { {[node EXCEPT !.left = l, !.right = r] :
                                r \in R(l, hits - h)} : l \in L(h) } :
                     h \in 0..hits }

\* what mutate returns once lines 21-68 have left it at s
AfterStep(s, mutation_type, mutation_prob, max_depth, n_variables, unary_weights, binary_weights, config, room, hits) ==
    IF s.returned THEN {s.node}
    ELSE Children(s.node,
                  ProbTimes(mutation_prob, config.VARIABLE_PROBABILITY),
                  max_depth, n_variables, unary_weights, binary_weights, room,
                  IF mutation_type = "NONE" THEN hits ELSE hits - 1)

MutateDrawn(node, mutation_type, mutation_prob, max_depth, n_variables, unary_weights, binary_weights, config, room, hits) ==
    UNION { AfterStep(s, mutation_type, mutation_prob, max_depth, n_variables,
                      unary_weights, binary_weights, config, room, hits) :
            s \in AtNode(node, mutation_type, max_depth, n_variables,
                         unary_weights, binary_weights, config, room) }

mutate(node, mutation_prob, max_depth, n_variables, unary_weights, binary_weights, config, room, hits) ==
    IF room < 1 THEN {}
    ELSE UNION { MutateDrawn(node, mt, mutation_prob, max_depth, n_variables,
                             unary_weights, binary_weights, config, room, hits) :
                 mt \in Draws(mutation_prob, config, hits) }

\* ------------------------------------------- the activations of one call
\* the activations of mutate that a call mutate(node, mutation_prob, ...,
\* config) makes when none of them returns before line 70: one for every
\* node, with the mutation_prob and the config it runs with.  Lines 72-88
\* pass mutation_prob * config.VARIABLE_PROBABILITY and no config, so that
\* the child runs with the default of line 19.
RECURSIVE Activations(_, _, _, _, _)
Activations(node, mutation_prob, config, level, parent) ==
    LET child_prob == ProbTimes(mutation_prob, config.VARIABLE_PROBABILITY)
    IN  {[id |-> node.id, parent |-> parent, level |-> level,
          mutation_prob |-> mutation_prob, config |-> config]}
        \cup (IF node.left = <<>> THEN {}
              ELSE Activations(node.left[1], child_prob, MutationConfig,
                               level + 1, node.id))
        \cup (IF node.right = <<>> THEN {}
              ELSE Activations(node.right[1], child_prob, MutationConfig,
                               level + 1, node.id))

\* the activations of the call that returned r: a child is visited when its
\* parent did not return at lines 28, 64, 66 or 68, that is when the parent
\* is still an object of r
Visited(arg, r, mutation_prob, config) ==
    {a \in Activations(arg, mutation_prob, config, 0, NewId) :
        a.level = 0 \/ a.parent \in {m.id : m \in Nodes(r)}}

\* ------------------------------------------------------------------ state
VARIABLES
    pc,             \* "new": no tree yet; "tree": node is the individual's
                    \* root; "input": node is the argument of the call to
                    \* come; "returned" / "visited": the call has
                    \* returned node
    max_depth,      \* the max_depth of every call
    n_variables,    \* the n_variables of every call
    depth,          \* the depth create_random_tree was called with
    node,           \* <<>> or <<the root>>
    call,           \* <<>> or <<the record of the mutate call that returned>>
    split           \* <<>> or <<the arguments and the outcome of split_data>>

vars == <<pc, max_depth, n_variables, depth, node, call, split>>

WeightChoices(registry) == (SUBSET registry) \ {{}}
\* the mutation_prob handed to mutate
Probs == {<<0, 1>>, <<1, 2>>, <<1, 1>>}
\* the MutationConfig handed to mutate: the default one, and one whose
\* start depths are lo..hi
ConfigWith(lo, hi, vp) ==
    [MUTATION_WEIGHTS |-> MutationType,
     SUBTREE_DEPTH_RANGE |-> <<lo, hi>>,
     VALUE_STEP_FACTOR |-> 1,
     VARIABLE_PROBABILITY |-> vp]
Configs == {MutationConfig, ConfigWith(0, MaxDepth, <<1, 2>>)}

Init ==
    /\ pc = "new"
    /\ max_depth \in 0..MaxDepth
    /\ n_variables \in 1..MaxVars
    /\ depth = 0
    /\ node = <<>>
    /\ call = <<>>
    /\ split = <<>>

\* the (mutation_prob, config) pairs handed to mutate
MutateInputs == {[mutation_prob |-> p, config |-> c] : p \in Probs, c \in Configs}

\* the unary_weights / binary_weights handed to create_random_tree
OptWeights(registry) == {<<>>} \cup {<<S>> : S \in WeightChoices(registry)}

\* node = create_random_tree(d, max_depth, n_variables, uw, bw), any d
CreateRandomTree ==
    /\ pc = "new"
    /\ \E d \in 0..max_depth :
         \E t \in UNION { create_random_tree(d, max_depth, n_variables, uw, bw,
                                             TreeConfig, MaxNodes) :
                          uw \in OptWeights(UNARY_OPS),
                          bw \in OptWeights(BINARY_OPS) } :
            /\ depth' = d
            /\ node' = <<Number(t, 1)>>
    /\ pc' = "tree"
    /\ UNCHANGED <<max_depth, n_variables, call, split>>

\* node = create_random_tree(0, max_depth, n_variables, uw, bw): the root of
\* a new individual
CreateRoot ==
    /\ pc = "new"
    /\ \E t \in UNION { create_random_tree(0, max_depth, n_variables, uw, bw,
                                           TreeConfig, MaxNodes) :
                        uw \in OptWeights(UNARY_OPS),
                        bw \in OptWeights(BINARY_OPS) } :
          node' = <<Number(t, 1)>>
    /\ pc' = "tree"
    /\ UNCHANGED <<max_depth, n_variables, depth, call, split>>

\* node = mutate(node, mutation_prob, max_depth, n_variables, uw, bw, config)
Mutate ==
    /\ pc = "tree"
    /\ \E r \in UNION { {Number(t, 1) :
                           t \in mutate(node[1], i.mutation_prob, max_depth,
                                        n_variables, uw, bw, i.config,
                                        MaxNodes, MaxHits)} :
                        i \in MutateInputs, uw \in WeightChoices(UNARY_OPS),
                        bw \in WeightChoices(BINARY_OPS) } :
          node' = <<r>>
    /\ UNCHANGED <<pc, max_depth, n_variables, depth, call, split>>

Next == CreateRoot \/ Mutate

Spec == Init /\ [][Next]_vars

\* create_random_tree alone, called with any depth
SpecGen == Init /\ [][CreateRandomTree]_vars

\* ------------------------------------------------- one call of mutate
\* the trees of exactly k nodes: leaves are the variables x0..x<n_variables>
\* and the constants, inner nodes carry registry operators
RECURSIVE TreesOfSize(_, _)
TreesOfSize(k, nv) ==
    IF k < 1 THEN {}
    ELSE IF k = 1
    THEN {Node(get_var_name(i), <<>>) : i \in 0..nv}
         \cup {Node(None, <<v>>) : v \in ConstValues}
    ELSE {OpNode(op, <<t>>, <<>>) : op \in UNARY_OPS, t \in TreesOfSize(k - 1, nv)}
         \cup UNION { {OpNode(op, <<l>>, <<r>>) :
                         op \in BINARY_OPS, l \in TreesOfSize(j, nv),
                         r \in TreesOfSize(k - 1 - j, nv)} :
                      j \in 1..(k - 2) }

InputNodes(nv) == UNION {TreesOfSize(k, nv) : k \in 1..MaxArgNodes}

InitCall ==
    /\ pc = "input"
    /\ max_depth \in 0..MaxDepth
    /\ n_variables \in 1..MaxVars
    /\ depth = 0
    /\ node \in {<<Number(t, 1)>> : t \in InputNodes(n_variables)}
    /\ call = <<>>
    /\ split = <<>>

\* node = mutate(node, mutation_prob, max_depth, n_variables, uw, bw, config),
\* the call recorded: its argument, the mutation type lines 21-25 drew, the
\* step lines 21-68 made of it, and the weights
MutateCall ==
    /\ pc = "input"
    /\ \E i \in MutateInputs, uw \in WeightChoices(UNARY_OPS),
          bw \in WeightChoices(BINARY_OPS) :
         \E mt \in Draws(i.mutation_prob, i.config, MaxHits) :
           \E s \in AtNode(node[1], mt, max_depth, n_variables, uw, bw,
                           i.config, MaxNodes) :
             \E r \in AfterStep(s, mt, i.mutation_prob, max_depth, n_variables,
                                uw, bw, i.config, MaxNodes, MaxHits) :
                /\ node' = <<r>>
                /\ call' = <<[arg |-> node[1], mutation_type |-> mt, step |-> s,
                              unary_weights |-> uw, binary_weights |-> bw]>>
    /\ pc' = "returned"
    /\ UNCHANGED <<max_depth, n_variables, depth, split>>

SpecCall == InitCall /\ [][MutateCall]_vars

\* ------------------------------------- one call with its activations
\* the MutationConfig handed to a call whose activations are recorded
VisitConfigs ==
    {MutationConfig,
     ConfigWith(0, MaxDepth, <<1, 2>>),
     [MutationConfig EXCEPT !.MUTATION_WEIGHTS = {OPERATOR}]}

\* node = mutate(node, mutation_prob, max_depth, n_variables, UNARY_OPS,
\* BINARY_OPS weights, config), recorded with its activations
MutateVisit ==
    /\ pc = "input"
    /\ \E p \in Probs, c \in VisitConfigs :
         \E r \in mutate(node[1], p, max_depth, n_variables, UNARY_OPS,
                         BINARY_OPS, c, MaxNodes, MaxHits) :
            /\ node' = <<r>>
            /\ call' = <<[arg |-> node[1], mutation_prob |-> p, config |-> c,
                          visits |-> Visited(node[1], r, p, c)]>>
    /\ pc' = "visited"
    /\ UNCHANGED <<max_depth, n_variables, depth, split>>

SpecVisit == InitCall /\ [][MutateVisit]_vars

\* ------------------------------------------------------------ split_data
\* train_ratio in hundredths
Ratios == {0, 25, 50, 75, 80, 100}
\* int(n * train_ratio)
TrainSize(n, train_ratio) == (n * train_ratio) \div 100

\* np.random.permutation(n): the orders of 0..n-1
Permutation(n) ==
    {p \in [1..n -> 0..(n - 1)] : \A i, j \in 1..n : p[i] = p[j] => i = j}

\* x as split_data indexes it: the rows along its first axis, row i of the
\* argument being sample i.  x.T of a 2-D x has one row per variable.
Rows(shape) == [i \in 1..shape[1] |-> <<"sample", i - 1>>]
Transposed(shape) == [j \in 1..shape[2] |-> <<"variable", j - 1>>]

\* a[index] for a sequence `index` of positions: <<>> when a position is
\* outside a (IndexError), else <<the selected rows>>
Take(a, index) ==
    IF \E k \in 1..Len(index) : index[k] >= Len(a)
    THEN <<>>
    ELSE <<[k \in 1..Len(index) |-> a[index[k] + 1]]>>

\* split_data(x, y, train_ratio) with np.random.permutation(n) giving idx
split_data(x_shape, y_len, train_ratio, idx) ==
    LET n == x_shape[1]
        x == IF Len(x_shape) = 2 /\ x_shape[2] < x_shape[1]
             THEN Transposed(x_shape) ELSE Rows(x_shape)
        y == [i \in 1..y_len |-> <<"sample", i - 1>>]
        train_size == TrainSize(n, train_ratio)
        head == SubSeq(idx, 1, train_size)
        tail == SubSeq(idx, train_size + 1, n)
        x_train == Take(x, head)
        x_val == Take(x, tail)
        y_train == Take(y, head)
        y_val == Take(y, tail)
    IN  IF <<>> \in {x_train, x_val, y_train, y_val}
        THEN [raised |-> TRUE, x_train |-> <<>>, x_val |-> <<>>,
              y_train |-> <<>>, y_val |-> <<>>]
        ELSE [raised |-> FALSE, x_train |-> x_train[1], x_val |-> x_val[1],
              y_train |-> y_train[1], y_val |-> y_val[1]]

\* x is 1-D of n samples, or 2-D of shape (n_samples, n_variables); y has
\* one entry per sample
InitSplit ==
    /\ pc = "split_input"
    /\ max_depth = 0
    /\ n_variables = 1
    /\ depth = 0
    /\ node = <<>>
    /\ call = <<>>
    /\ \E shape \in {<<n>> : n \in 1..MaxAxis}
                    \cup {<<n, v>> : n \in 1..MaxAxis, v \in 1..MaxAxis},
          train_ratio \in Ratios :
         split = <<[x_shape |-> shape, train_ratio |-> train_ratio]>>

SplitData ==
    /\ pc = "split_input"
    /\ \E idx \in Permutation(split[1].x_shape[1]) :
         split' = <<split[1] @@
                    [idx |-> idx,
                     out |-> split_data(split[1].x_shape, split[1].x_shape[1],
                                        split[1].train_ratio, idx)]>>
    /\ pc' = "split_done"
    /\ UNCHANGED <<max_depth, n_variables, depth, node, call>>

SpecSplit == InitSplit /\ [][SplitData]_vars

\* ------------------------------------------------------------ properties
IsVarLeaf(n) ==
    IsVarName(n.op) /\ n.value = <<>> /\ n.left = <<>> /\ n.right = <<>>
IsConstLeaf(n) ==
    n.op = None /\ n.value # <<>> /\ n.left = <<>> /\ n.right = <<>>
HasVariable(n) == \E m \in Nodes(n) : IsVarLeaf(m)

\* C1: the tree create_random_tree(depth, max_depth, ...) returns, its root
\* taken to be at level depth, has no node at a level greater than max_depth.
C1_DepthWithinMax ==
    pc = "tree" => depth + Height(node[1]) <= max_depth

\* C2: the tree create_random_tree(0, ...) returns has a binary operator at
\* its root, one child of the root is a variable leaf, and so the tree holds
\* a variable.
C2_RootHasVariable ==
    (pc = "tree" /\ depth = 0) =>
        /\ node[1].op \in BINARY_OPS
        /\ node[1].left # <<>> /\ node[1].right # <<>>
        /\ IsVarLeaf(node[1].left[1]) \/ IsVarLeaf(node[1].right[1])
        /\ HasVariable(node[1])
\* a root-level tree whose other child is an operator over constants only
C2_Witness ==
    /\ pc = "tree" /\ depth = 0
    /\ \E m \in Nodes(node[1]) : m.op \in UNARY_OPS \cup BINARY_OPS /\ m.id # 1
    /\ Cardinality({m \in Nodes(node[1]) : IsVarLeaf(m)}) = 1

\* C8: every variable leaf of a tree create_random_tree returns carries an
\* index in 0..n_variables-1.
C8_VarIndexInRange ==
    pc = "tree" =>
        \A m \in Nodes(node[1]) :
            IsVarLeaf(m) => VarIndex(m.op) \in 0..(n_variables - 1)

\* C3: in every tree reached from create_random_tree by mutate calls, a
\* binary operator node has both children, a unary operator node has its
\* left child and no right child, and a variable or constant leaf has none.
ArityOK(m) ==
    /\ m.op \in BINARY_OPS => (m.left # <<>> /\ m.right # <<>>)
    /\ m.op \in UNARY_OPS => (m.left # <<>> /\ m.right = <<>>)
    /\ (IsVarName(m.op) \/ m.op = None) => (m.left = <<>> /\ m.right = <<>>)
C3_ArityInvariant ==
    pc = "tree" => \A m \in Nodes(node[1]) : ArityOK(m)
\* a tree only mutate can leave: its root is a unary operator, over a
\* binary one
C3_Witness ==
    /\ pc = "tree"
    /\ node[1].op \in UNARY_OPS
    /\ node[1].left # <<>>
    /\ node[1].left[1].op \in BINARY_OPS

\* C4: a tree that began as create_random_tree(0, ...) holds a variable
\* leaf after any sequence of mutate calls.
C4_KeepsVariable ==
    pc = "tree" => HasVariable(node[1])

\* C5: when the tree handed to mutate has no node at a level greater than
\* max_depth (its root at level 0), neither has the tree mutate returns.
\* Stated for max_depth >= 1, where create_random_tree called with depth 0
\* keeps to max_depth itself (see C1).
C5_MutateKeepsDepth ==
    [][(pc = "tree" /\ max_depth >= 1 /\ Height(node[1]) <= max_depth)
         => Height(node'[1]) <= max_depth]_vars

\* C6: when mutate draws SIMPLIFY on a "*" node whose left child is the
\* constant 0, it returns a childless constant 0 at once, without going on
\* to the children.
SimplifyDrawn ==
    pc = "returned" /\ call[1].mutation_type = SIMPLIFY /\ call[1].arg.op = "*"
C6_ZeroTimesX ==
    (/\ SimplifyDrawn
     /\ call[1].arg.left # <<>>
     /\ IsConstLeaf(call[1].arg.left[1])
     /\ call[1].arg.left[1].value = <<0>>)
    => /\ call[1].step.returned
       /\ IsConstLeaf(node[1])
       /\ node[1].value = <<0>>
\* 0 * X drawn with X an operator node
C6_Witness ==
    /\ SimplifyDrawn
    /\ call[1].arg.left # <<>>
    /\ IsConstLeaf(call[1].arg.left[1])
    /\ call[1].arg.left[1].value = <<0>>
    /\ call[1].arg.right # <<>>
    /\ call[1].arg.right[1].op \in UNARY_OPS \cup BINARY_OPS

\* C7: when mutate draws SIMPLIFY on a "*" node whose right child is the
\* constant 1, it returns a tree structurally equal to the left subtree,
\* none of whose nodes is a node of the tree it was handed.
Ids(n) == {m.id : m \in Nodes(n)}
C7_XTimesOne ==
    (/\ SimplifyDrawn
     /\ call[1].arg.left # <<>>
     /\ call[1].arg.right # <<>>
     /\ IsConstLeaf(call[1].arg.right[1])
     /\ call[1].arg.right[1].value = <<1>>)
    => /\ call[1].step.returned
       /\ SameShape(node[1], call[1].arg.left[1])
       /\ Ids(node[1]) \cap Ids(call[1].arg) = {}
\* X * 1 drawn with X an operator node
C7_Witness ==
    /\ SimplifyDrawn
    /\ call[1].arg.left # <<>>
    /\ call[1].arg.left[1].op \in UNARY_OPS \cup BINARY_OPS
    /\ call[1].arg.right # <<>>
    /\ IsConstLeaf(call[1].arg.right[1])
    /\ call[1].arg.right[1].value = <<1>>
    /\ Ids(node[1]) = {NewId}

\* C9: split_data returns without error; x_train and y_train hold the same
\* int(n * train_ratio) samples, x_val and y_val the others, and every sample
\* is in exactly one of the two sets.
Range(q) == {q[i] : i \in 1..Len(q)}
C9_SplitsSamples ==
    pc = "split_done" =>
        LET n == split[1].x_shape[1]
            out == split[1].out
            all == {<<"sample", i>> : i \in 0..(n - 1)}
        IN  /\ ~out.raised
            /\ out.x_train = out.y_train
            /\ out.x_val = out.y_val
            /\ Len(out.x_train) = TrainSize(n, split[1].train_ratio)
            /\ Len(out.x_val) = n - TrainSize(n, split[1].train_ratio)
            /\ Range(out.x_train) \cup Range(out.x_val) = all
            /\ Range(out.x_train) \cap Range(out.x_val) = {}

\* C10: when mutate draws OPERATOR on a node, lines 38-48 leave the same
\* object with its left child, right child and value as they were; a unary
\* op has become a key of unary_weights, a binary op a key of
\* binary_weights; and mutate returns that object.
C10_OperatorStep ==
    (pc = "returned" /\ call[1].mutation_type = OPERATOR) =>
        LET arg == call[1].arg
            after == call[1].step.node
        IN  /\ ~call[1].step.returned
            /\ after.id = arg.id
            /\ after.left = arg.left
            /\ after.right = arg.right
            /\ after.value = arg.value
            /\ arg.op \in UNARY_OPS =>
                   (after.op \in call[1].unary_weights /\ after.op \in UNARY_OPS)
            /\ arg.op \in BINARY_OPS =>
                   (after.op \in call[1].binary_weights /\ after.op \in BINARY_OPS)
            /\ arg.op \notin UNARY_OPS \cup BINARY_OPS => after.op = arg.op
            /\ node[1].id = arg.id
\* OPERATOR drawn on a unary node, which got another unary op
C10_Witness ==
    /\ pc = "returned" /\ call[1].mutation_type = OPERATOR
    /\ call[1].arg.op \in UNARY_OPS
    /\ node[1].op \in UNARY_OPS
    /\ node[1].op # call[1].arg.op
    /\ node[1].id = call[1].arg.id

\* C11: whatever mutation type mutate draws, every object of the tree it was
\* handed that is still in the tree it returns has the value it had before
\* the call: lines 50-57 never run.
C11_ValuesKept ==
    pc = "returned" =>
        \A m \in Nodes(node[1]) :
            m.id # NewId =>
                \E a \in Nodes(call[1].arg) : a.id = m.id /\ a.value = m.value
\* VALUE drawn on a constant leaf, or on the parent of one, and the leaf is
\* still in the returned tree
C11_Witness ==
    /\ pc = "returned"
    /\ call[1].mutation_type = VALUE
    /\ \E a \in Nodes(call[1].arg) :
          /\ IsConstLeaf(a)
          /\ \E m \in Nodes(node[1]) : m.id = a.id /\ m.value = a.value

\* C12: in a call mutate(node, mutation_prob, ..., config) every activation
\* that can draw a mutation, k levels below the root, draws its mutation
\* type from config.MUTATION_WEIGHTS and runs with the probability
\* mutation_prob * config.VARIABLE_PROBABILITY^k.
RECURSIVE Attenuated(_, _, _)
Attenuated(p, q, k) == IF k = 0 THEN p ELSE Attenuated(ProbTimes(p, q), q, k - 1)
SameProb(p, q) == p[1] * q[2] = q[1] * p[2]
C12_ConfigGoverns ==
    pc = "visited" =>
        \A a \in call[1].visits :
          CanBeBelow(a.mutation_prob) =>
            /\ a.config.MUTATION_WEIGHTS = call[1].config.MUTATION_WEIGHTS
            /\ SameProb(a.mutation_prob,
                        Attenuated(call[1].mutation_prob,
                                   call[1].config.VARIABLE_PROBABILITY, a.level))
====
